---- MODULE Spec2Model ----
(***************************************************************************)
(* DefaultRouteMatcherManager: provider registration, asynchronous         *)
(* (re)compilation of the matcher snapshot guarded by the compilation ID,  *)
(* waitTillReady, load, and the lazy matchAll query with its locale        *)
(* adaptation in validate; and AppPathsCollector (sort on read) and        *)
(* AppPathsRoutes (sort on insert), the aggregation of the pages that      *)
(* normalize to one pathname.                                              *)
(*                                                                         *)
(* Every async function is cut at its awaits: the code between two awaits  *)
(* runs to completion on the single JavaScript thread and is one action.   *)
(***************************************************************************)
EXTENDS Integers, Sequences, FiniteSets, TLC

\* ------------------------------------------------------------------ bounds
MaxProviders == 2      \* providers registered by push
MaxReloads == 2        \* forceReload runs (explicit or through load)
MaxWaiters == 2        \* waitTillReady() calls
MaxPages == 3          \* pages stored in one AppPathsCollector

\* ------------------------------------------------- matchers and providers
\* A pathname is a sequence of segments; "[id]" is a named parameter and
\* "[...rest]" a required catch-all.
ParamSegs == {"[id]"}
CatchAllSegs == {"[...rest]"}
DynamicSegs == ParamSegs \cup CatchAllSegs

\* The matcher objects of the universe: a matcher is its reference (1..8),
\* two matchers with the same definition pathname are distinct objects.
MatcherRefs == 1..8
definitionPathname(m) ==
    CASE m = 1 -> <<"x">>
      [] m = 2 -> <<"x">>
      [] m = 3 -> <<"a", "[id]">>
      [] m = 4 -> <<"a", "[...rest]">>
      [] m = 5 -> <<"about">>
      [] m = 6 -> <<"about">>
      [] m = 7 -> <<"about">>
      [] m = 8 -> <<"a", "b">>

\* LocaleRouteMatcher.is(matcher): matchers 5 and 6 are the locale-aware
\* variants of /about, for the locales "en" and "fr"; the others are not
\* locale-aware.
LocaleRouteMatcherIs(m) == m \in {5, 6}
definitionLocale(m) == IF m = 5 THEN "en" ELSE IF m = 6 THEN "fr" ELSE ""

identity(m) == definitionPathname(m)

\* createPathnameMatcher: a dynamic matcher iff the pattern has a parameter
\* or catch-all segment.
IsDynamicPattern(p) == \E i \in 1..Len(p) : p[i] \in DynamicSegs
isDynamic(m) == IsDynamicPattern(definitionPathname(m))

\* PathnameMatcher.match: exact equality for a static pattern; for a dynamic
\* one the whole pathname must conform segment by segment, a catch-all (last)
\* taking one or more remaining segments.
PathnameMatch(pattern, pathname) ==
    IF ~IsDynamicPattern(pattern)
    THEN pattern = pathname
    ELSE LET n == Len(pattern)
             fixedOK(k) == \A i \in 1..k :
                              pattern[i] \in ParamSegs \/ pattern[i] = pathname[i]
         IN  IF pattern[n] \in CatchAllSegs
             THEN Len(pathname) >= n /\ fixedOK(n - 1)
             ELSE Len(pathname) = n /\ fixedOK(n)

\* DefaultRouteMatcher.match({pathname}): null (FALSE) or a match.
match(m, pathname) == PathnameMatch(definitionPathname(m), pathname)

\* LocaleRouteMatcher.match(i18n): the locale of the context is the
\* matcher's and the pathname of the context matches the pattern.
matchLocale(m, i18n) ==
    /\ definitionLocale(m) = i18n.locale
    /\ PathnameMatch(definitionPathname(m), i18n.pathname)

\* The request pathnames a query may ask for.
QueryPathnames == {<<"x">>, <<"a", "b">>, <<"a", "[id]">>}

\* The output pathnames a query may name; <<>> is no directive.
QueryOutputs == {<<>>, <<"x">>}

\* normalized.options.i18n: absent, or the locale context {locale,
\* inferredFromDefault, pathname}, pathname being the request pathname
\* without its locale prefix.
NoI18n ==
    [present |-> FALSE, locale |-> "", inferredFromDefault |-> FALSE,
     pathname |-> <<>>]
I18nContexts ==
    {[present |-> TRUE, locale |-> "en", inferredFromDefault |-> TRUE,
      pathname |-> <<"about">>],
     [present |-> TRUE, locale |-> "fr", inferredFromDefault |-> FALSE,
      pathname |-> <<"about">>]}

\* The queries of a server with locales: pathnames, output pathnames and
\* locale contexts.
LocalePathnames == {<<"about">>, <<"en", "about">>, <<"fr", "about">>}
LocaleOutputs == {<<>>, <<"about">>}
LocaleOptions == {NoI18n} \cup I18nContexts

\* isDynamicRoute(pathname): the pathname itself looks like a route pattern.
isDynamicRoute(pathname) == IsDynamicPattern(pathname)

\* The registered providers and what a call of matchers() can resolve to.
ProviderIds == {"p1", "p2"}
LocaleProviderIds == {"p3", "p4"}
OrderProviderIds == {"p5"}
LiveProviderIds == {"p2"}
ProviderResults(p) ==
    CASE p = "p1" -> {<<1, 4>>, <<1, 3>>}
      [] p = "p2" -> {<<2, 3>>}
      [] p = "p3" -> {<<5, 6, 7>>}
      [] p = "p4" -> {<<7, 3>>}
      [] p = "p5" -> {<<4, 8, 3>>, <<3, 8>>}

\* ------------------------------------------------------- pure helpers
Range(s) == {s[i] : i \in 1..Len(s)}

\* groupMatcherResults(matchers).all: every identity seen, mapped to the
\* complete list of the matchers with that identity, in input order.
GroupAll(list) ==
    [p \in {identity(m) : m \in Range(list)} |->
        SelectSeq(list, LAMBDA m : identity(m) = p)]

\* groupMatcherResults(matchers).duplicates: the identities with more than one
\* matcher, mapped to the full list of the colliding matchers.
GroupDuplicates(list) ==
    LET all == GroupAll(list)
    IN  [p \in {q \in DOMAIN all : Len(all[q]) > 1} |-> all[p]]

groupMatcherResults(list) ==
    [all |-> GroupAll(list), duplicates |-> GroupDuplicates(list)]

\* Specificity, most specific first: fewer dynamic segments; then no
\* catch-all before catch-all; then, left to right, a static segment before a
\* dynamic one at the same position.
DynamicCount(p) == Cardinality({i \in 1..Len(p) : p[i] \in DynamicSegs})
HasCatchAll(p) == \E i \in 1..Len(p) : p[i] \in CatchAllSegs
FirstDiffKind(p, q) ==
    LET n == IF Len(p) < Len(q) THEN Len(p) ELSE Len(q)
        d == {i \in 1..n : (p[i] \in DynamicSegs) # (q[i] \in DynamicSegs)}
    IN  IF d = {} THEN 0 ELSE CHOOSE i \in d : \A j \in d : i <= j
MoreSpecific(p, q) ==
    \/ DynamicCount(p) < DynamicCount(q)
    \/ /\ DynamicCount(p) = DynamicCount(q)
       /\ \/ ~HasCatchAll(p) /\ HasCatchAll(q)
          \/ /\ HasCatchAll(p) = HasCatchAll(q)
             /\ FirstDiffKind(p, q) # 0
             /\ p[FirstDiffKind(p, q)] \notin DynamicSegs

RECURSIVE InsertSorted(_, _)
InsertSorted(sorted, m) ==
    IF sorted = <<>> THEN <<m>>
    ELSE IF MoreSpecific(identity(m), identity(Head(sorted)))
         THEN <<m>> \o sorted
         ELSE <<Head(sorted)>> \o InsertSorted(Tail(sorted), m)

RECURSIVE sortDynamicMatchers(_)
\* A stable sort of the dynamic matchers by specificity.
sortDynamicMatchers(list) ==
    IF list = <<>> THEN <<>>
    ELSE InsertSorted(sortDynamicMatchers(SubSeq(list, 1, Len(list) - 1)),
                      list[Len(list)])

\* matchers.filter((matcher) => !matcher.isDynamic)
StaticOf(list) == SelectSeq(list, LAMBDA m : ~isDynamic(m))
\* sortDynamicMatchers(matchers.filter((matcher) => matcher.isDynamic))
DynamicOf(list) == sortDynamicMatchers(SelectSeq(list, isDynamic))

EmptyMap == [p \in {} |-> <<>>]

\* ------------------------------------------------------ AppPathsCollector
\* A string is the sequence of its UTF-16 code units: "/" is 47, "a" 97 and
\* "b" 98. The pathnames are "/b" and "/ab", the pages "b" and "ab".
CollectorPathnames == {<<47, 98>>, <<47, 97, 98>>}
CollectorPages == {<<98>>, <<97, 98>>}
CollectorIds == {1, 2}

\* The order of Array.prototype.sort() without a comparator: strings compare
\* code unit by code unit, a proper prefix before the longer string.
StrLess(a, b) ==
    \E k \in 1..(Len(b)) :
        /\ k <= Len(a) + 1
        /\ \A j \in 1..(k - 1) : a[j] = b[j]
        /\ k = Len(a) + 1 \/ a[k] < b[k]

RECURSIVE StrInsert(_, _)
StrInsert(sorted, x) ==
    IF sorted = <<>> THEN <<x>>
    ELSE IF StrLess(x, Head(sorted)) THEN <<x>> \o sorted
         ELSE <<Head(sorted)>> \o StrInsert(Tail(sorted), x)

RECURSIVE StrSort(_)
\* array.sort() of an array of strings.
StrSort(arr) ==
    IF arr = <<>> THEN <<>>
    ELSE StrInsert(StrSort(SubSeq(arr, 1, Len(arr) - 1)), arr[Len(arr)])

\* The Map appPaths is the sequence of its entries in insertion order.
MapKeys(map) == [k \in 1..Len(map) |-> map[k].pathname]
MapHas(map, pathname) == \E k \in 1..Len(map) : map[k].pathname = pathname
MapGet(map, pathname) ==
    map[CHOOSE k \in 1..Len(map) : map[k].pathname = pathname].appPaths

\* push: the Map after the call.
PushMap(map, pathname, page) ==
    IF MapHas(map, pathname)
    THEN [k \in 1..Len(map) |->
             IF map[k].pathname = pathname
             THEN [map[k] EXCEPT !.appPaths = Append(@, page)]
             ELSE map[k]]
    ELSE Append(map, [pathname |-> pathname, appPaths |-> <<page>>])

RECURSIVE TotalPages(_)
TotalPages(map) ==
    IF map = <<>> THEN 0 ELSE Len(Head(map).appPaths) + TotalPages(Tail(map))

PushReturnTotal(map, pathname, page) == TotalPages(PushMap(map, pathname, page))

\* push: its return value, appPaths.push(page), the new length of the list.
PushReturn(map, pathname, page) ==
    Len(MapGet(PushMap(map, pathname, page), pathname))

pathnamesInsertionOrder(map) == MapKeys(map)

\* pathnames(): Array.from(this.appPaths.keys()).sort()
pathnames(map) == StrSort(MapKeys(map))

\* get() returning null.
Null == [pathname |-> <<>>, page |-> <<>>, appPaths |-> <<>>]

getUnsorted(map, pathname) ==
    IF ~MapHas(map, pathname) THEN Null
    ELSE LET sorted == MapGet(map, pathname)
         IN  [page |-> sorted[Len(sorted)], pathname |-> pathname,
              appPaths |-> sorted]

\* get(pathname)
get(map, pathname) ==
    IF ~MapHas(map, pathname) THEN Null
    ELSE LET sorted == StrSort(MapGet(map, pathname))
         IN  [page |-> sorted[Len(sorted)], pathname |-> pathname,
              appPaths |-> sorted]

\* toSortedArray()
toSortedArray(map) ==
    LET names == pathnames(map)
    IN  [k \in 1..Len(names) |-> get(map, names[k])]

\* --------------------------------------------------------- AppPathsRoutes
AddMapUnsorted(map, pathname, page) == PushMap(map, pathname, page)

\* add: the Map after the call; a list that exists is sorted in place after
\* the page is appended to it.
AddMap(map, pathname, page) ==
    IF MapHas(map, pathname)
    THEN [k \in 1..Len(map) |->
             IF map[k].pathname = pathname
             THEN [map[k] EXCEPT !.appPaths = StrSort(Append(@, page))]
             ELSE map[k]]
    ELSE Append(map, [pathname |-> pathname, appPaths |-> <<page>>])

\* add: its return value, appPaths.length.
AddReturn(map, pathname, page) ==
    Len(MapGet(AddMap(map, pathname, page), pathname))

\* AppPathsRoutes.pathnames()
routesPathnames(map) == StrSort(MapKeys(map))

\* AppPathsRoutes.get(pathname): the stored list as it is.
routesGet(map, pathname) ==
    IF ~MapHas(map, pathname) THEN Null
    ELSE LET stored == MapGet(map, pathname)
         IN  [page |-> stored[Len(stored)], pathname |-> pathname,
              appPaths |-> stored]

\* AppPathsRoutes.toSortedArray()
routesToSortedArray(map) ==
    LET names == routesPathnames(map)
    IN  [k \in 1..Len(names) |-> routesGet(map, names[k])]

\* toObject(): the properties of the object in the order they were set.
toObject(map) ==
    LET names == pathnames(map)
    IN  [k \in 1..Len(names) |->
            [key |-> names[k], value |-> StrSort(MapGet(map, names[k]))]]

\* ------------------------------------------------------------------ state
VARIABLES
    providers,            \* this.providers
    matchers,             \* this.matchers: static, dynamic, duplicates, all
    lastCompilationID,    \* this.lastCompilationID
    waitTillReadyPromise, \* this.waitTillReadyPromise: 0 (undefined) or the
                          \* forceReload run whose promise it is
    reloadHasBeenCalled,  \* this.reloadHasBeenCalled
    previousMatchers,     \* this.previousMatchers
    reloads,              \* the forceReload runs, in the order they started
    loads,                \* history: "none", "one" or "several" load() calls
    waiters,              \* the waitTillReady() calls, in call order
    query,                \* the matchAll() generator being consumed
    compiledBy,           \* history: the run that last wrote static/dynamic/all
    sincePush,            \* history: "none", "succeeded" (a reload succeeded),
                          \* "pushed" (then a provider was pushed and no
                          \* forceReload was called since)
    settled,              \* history: the last two runs that settled, each with
                          \* the list it fetched and the runs then in flight
    observed,             \* the history variables that are being recorded
    appPaths,             \* AppPathsCollector.appPaths of each collector
    pushed,               \* history: of each collector, how often each
                          \* (pathname, page) was pushed since the last clear
    lastPush,             \* history: the last push call and what it returned
    routes,               \* AppPathsRoutes.appPaths
    calls                 \* history: the insertions made on collector 1 and
                          \* on the AppPathsRoutes, each with what it returned

collectorVars == <<appPaths, pushed, lastPush, routes, calls>>

vars == <<providers, matchers, lastCompilationID, waitTillReadyPromise,
          reloadHasBeenCalled, previousMatchers, reloads, loads, waiters,
          query, compiledBy, sincePush, settled, observed, collectorVars>>

\* private get compilationID() { return this.providers.length }
compilationID == Len(providers)

IdleQuery ==
    [phase |-> "idle", pathname |-> <<>>, arr |-> <<>>, idx |-> 0,
     output |-> <<>>, i18n |-> NoI18n, consulted |-> <<>>, args |-> <<>>,
     yielded |-> <<>>, stale |-> "none", genS |-> -1, genD |-> -1]

Init ==
    /\ providers = <<>>
    /\ matchers = [static |-> <<>>, dynamic |-> <<>>,
                   duplicates |-> EmptyMap, all |-> EmptyMap]
    /\ lastCompilationID = 0
    /\ waitTillReadyPromise = 0
    /\ reloadHasBeenCalled = FALSE
    /\ previousMatchers = <<>>
    /\ reloads = <<>>
    /\ loads = "none"
    /\ waiters = <<>>
    /\ query = IdleQuery
    /\ compiledBy = 0
    /\ sincePush = "none"
    /\ settled = <<>>
    /\ appPaths = [c \in CollectorIds |-> <<>>]
    /\ pushed = [c \in CollectorIds |->
                    [e \in CollectorPathnames \X CollectorPages |-> 0]]
    /\ lastPush = [collector |-> 0, pathname |-> <<>>, returned |-> 0]
    /\ routes = <<>>
    /\ calls = [collector |-> <<>>, routes |-> <<>>]

\* The new value of history variable `name`: recorded only under a
\* specification whose claims read it, the program never reads it.
Record(name, old, new) == IF name \in observed THEN new ELSE old

InFlight == {i \in 1..Len(reloads) : reloads[i].st = "inflight"}

\* ------------------------------------------------------------------- push
\* push(...providers): this.providers.push(...providers)
Push(p) ==
    /\ Len(providers) < MaxProviders
    /\ providers' = Append(providers, p)
    /\ sincePush' = Record("sincePush", sincePush,
                        IF sincePush = "none" THEN "none" ELSE "pushed")
    /\ UNCHANGED <<collectorVars, observed, matchers, lastCompilationID, waitTillReadyPromise,
                   reloadHasBeenCalled, previousMatchers, reloads, loads,
                   waiters, query, compiledBy, settled>>

\* ------------------------------------------------------------ forceReload
\* forceReload up to its await: a new waitTillReadyPromise, the flag, the
\* captured compilation ID and one matchers() call per registered provider.
StartReload(origin) ==
    /\ Len(reloads) < MaxReloads
    /\ reloads' = Append(reloads,
          [cid |-> compilationID, origin |-> origin, st |-> "inflight",
           outcome |-> "none", promise |-> "pending", ret |-> "pending",
           loadRet |-> IF origin = "load" THEN "pending" ELSE "none"])
    /\ waitTillReadyPromise' = Len(reloads) + 1
    /\ reloadHasBeenCalled' = TRUE
    /\ sincePush' = Record("sincePush", sincePush, "none")

ForceReload ==
    /\ StartReload("force")
    /\ UNCHANGED <<collectorVars, observed, providers, matchers, lastCompilationID, previousMatchers,
                   loads, waiters, query, compiledBy, settled>>

\* load(): return at once when a reload has been called, else set the flag
\* and run forceReload.
LoadSkipsIfLoaded == previousMatchers # <<>>
LoadSkips == reloadHasBeenCalled

Load ==
    /\ loads' = Record("loads", loads,
                    IF loads = "none" THEN "one" ELSE "several")
    /\ IF LoadSkips
       THEN UNCHANGED <<reloads, waitTillReadyPromise, reloadHasBeenCalled,
                        sincePush>>
       ELSE StartReload("load")
    /\ UNCHANGED <<collectorVars, observed, providers, matchers, lastCompilationID, previousMatchers,
                   waiters, query, compiledBy, settled>>

RECURSIVE FetchedLists(_)
\* The lists the first k registered providers can jointly resolve to, each
\* provider's list appended in provider order (the reduce over
\* providersMatchers).
FetchedLists(k) ==
    IF k = 0 THEN {<<>>}
    ELSE {pre \o own : pre \in FetchedLists(k - 1),
                       own \in ProviderResults(providers[k])}

\* await Promise.all(this.providers.map((provider) => provider.matchers())):
\* what the joint fetch of the providers registered at the call can settle
\* to. It rejects when any provider rejects, else it resolves to the
\* providers' lists, flattened.
FetchOutcomes(cid) ==
    {[ok |-> TRUE, list |-> l] : l \in FetchedLists(cid)}
    \cup (IF cid = 0 THEN {} ELSE {[ok |-> FALSE, list |-> <<>>]})

SamePreviousLengthOnly(prev, list) == Len(prev) = Len(list)

\* this.previousMatchers.length === matchers.length &&
\* this.previousMatchers.every((cached, index) => cached === matchers[index])
SamePrevious(prev, list) ==
    /\ Len(prev) = Len(list)
    /\ \A i \in 1..Len(prev) : prev[i] = list[i]

\* TryBody with the duplicates refreshed before the fetch is awaited.
TryBodyEagerDuplicates(m, prev, cid, now, fetch) ==
    IF ~fetch.ok
    THEN [matchers |-> [m EXCEPT !.duplicates = EmptyMap],
          previousMatchers |-> prev,
          outcome |-> "rejected", wrote |-> FALSE]
    ELSE LET g == groupMatcherResults(fetch.list)
         IN  IF SamePrevious(prev, fetch.list)
             THEN [matchers |-> [m EXCEPT !.duplicates = g.duplicates],
                   previousMatchers |-> prev,
                   outcome |-> "same", wrote |-> FALSE]
             ELSE [matchers |-> [static |-> StaticOf(fetch.list),
                                 dynamic |-> DynamicOf(fetch.list),
                                 duplicates |-> g.duplicates,
                                 all |-> g.all],
                   previousMatchers |-> fetch.list,
                   outcome |-> IF now # cid THEN "invariant" ELSE "ok",
                   wrote |-> TRUE]

\* TryBody with `all` left as it was when the lists differ.
TryBodyStaleAll(m, prev, cid, now, fetch) ==
    IF ~fetch.ok
    THEN [matchers |-> m, previousMatchers |-> prev,
          outcome |-> "rejected", wrote |-> FALSE]
    ELSE LET g == groupMatcherResults(fetch.list)
         IN  IF SamePrevious(prev, fetch.list)
             THEN [matchers |-> [m EXCEPT !.duplicates = g.duplicates],
                   previousMatchers |-> prev,
                   outcome |-> "same", wrote |-> FALSE]
             ELSE [matchers |-> [static |-> StaticOf(fetch.list),
                                 dynamic |-> DynamicOf(fetch.list),
                                 duplicates |-> g.duplicates,
                                 all |-> m.all],
                   previousMatchers |-> fetch.list,
                   outcome |-> IF now # cid THEN "invariant" ELSE "ok",
                   wrote |-> TRUE]

\* The try block of forceReload after the fetch settled, for snapshot m,
\* previous list prev, captured ID cid and current ID now: the new snapshot,
\* the new previous list, how the block ended and whether it wrote
\* static/dynamic/all.
TryBody(m, prev, cid, now, fetch) ==
    IF ~fetch.ok
    THEN [matchers |-> m, previousMatchers |-> prev,
          outcome |-> "rejected", wrote |-> FALSE]
    ELSE LET g == groupMatcherResults(fetch.list)
         IN  IF SamePrevious(prev, fetch.list)
             THEN [matchers |-> [m EXCEPT !.duplicates = g.duplicates],
                   previousMatchers |-> prev,
                   outcome |-> "same", wrote |-> FALSE]
             ELSE [matchers |-> [static |-> StaticOf(fetch.list),
                                 dynamic |-> DynamicOf(fetch.list),
                                 duplicates |-> g.duplicates,
                                 all |-> g.all],
                   previousMatchers |-> fetch.list,
                   outcome |-> IF now # cid THEN "invariant" ELSE "ok",
                   wrote |-> TRUE]

Failed(outcome) == outcome \in {"rejected", "invariant"}

\* SettledPromise without the callbacks.reject(err) of the catch block and
\* with callbacks.resolve() at the end of the try block.
SettledPromiseOnSuccessOnly(outcome) ==
    IF Failed(outcome) THEN "pending" ELSE "resolved"

\* catch (err) { callbacks.reject(err) } finally { ...; callbacks.resolve() }:
\* the state of the run's waitTillReadyPromise.
SettledPromise(outcome) == IF Failed(outcome) THEN "rejected" ELSE "resolved"

\* The promise forceReload() returned: the catch block does not rethrow.
ReturnedPromise(outcome) == "resolved"

\* finally { this.lastCompilationID = compilationID }
FinallyCompilationID(cid, outcome) == cid

\* forceReload from the settling of its await to its end.
ReloadSettle(i) ==
    /\ reloads[i].st = "inflight"
    /\ \E fetch \in FetchOutcomes(reloads[i].cid) :
         \E r \in {TryBody(matchers, previousMatchers, reloads[i].cid,
                           compilationID, fetch)} :
             /\ matchers' = r.matchers
             /\ previousMatchers' = r.previousMatchers
             /\ lastCompilationID' = FinallyCompilationID(reloads[i].cid, r.outcome)
             /\ reloads' = [reloads EXCEPT ![i] =
                    [@ EXCEPT !.st = "settled",
                              !.outcome = r.outcome,
                              !.promise = SettledPromise(r.outcome),
                              !.ret = ReturnedPromise(r.outcome)]]
             /\ compiledBy' = Record("compiledBy", compiledBy,
                                     IF r.wrote THEN i ELSE compiledBy)
             /\ settled' = Record("settled", settled,
                    LET e == [run |-> i, list |-> fetch.list,
                              others |-> InFlight \ {i}]
                    IN  IF Len(settled) = 2 THEN <<settled[2], e>>
                        ELSE Append(settled, e))
             /\ sincePush' = Record("sincePush", sincePush,
                                    IF Failed(r.outcome) \/ sincePush = "pushed"
                                    THEN sincePush ELSE "succeeded")
    /\ UNCHANGED <<collectorVars, observed, providers, waitTillReadyPromise, reloadHasBeenCalled,
                   loads, waiters, query>>

\* load() after its await this.forceReload(): it settles as forceReload did.
LoadReturn(i) ==
    /\ reloads[i].loadRet = "pending"
    /\ reloads[i].ret # "pending"
    /\ reloads' = [reloads EXCEPT ![i].loadRet = reloads[i].ret]
    /\ UNCHANGED <<collectorVars, observed, providers, matchers, lastCompilationID,
                   waitTillReadyPromise, reloadHasBeenCalled,
                   previousMatchers, loads, waiters, query, compiledBy, sincePush, settled>>

\* ---------------------------------------------------------- waitTillReady
\* waitTillReady() up to its await: it returns at once when no promise is
\* stored, else it suspends on the stored promise.
WaitTillReady ==
    /\ Len(waiters) < MaxWaiters
    /\ waiters' = Append(waiters,
          IF waitTillReadyPromise = 0
          THEN [st |-> "returned", on |-> 0, suspended |-> FALSE,
                inflight |-> Record("inflight", {}, InFlight),
                left |-> Record("inflight", {}, InFlight)]
          ELSE [st |-> "awaiting", on |-> waitTillReadyPromise,
                suspended |-> TRUE,
                inflight |-> Record("inflight", {}, InFlight), left |-> {}])
    /\ UNCHANGED <<collectorVars, observed, providers, matchers, lastCompilationID,
                   waitTillReadyPromise, reloadHasBeenCalled,
                   previousMatchers, reloads, loads, query, compiledBy, sincePush, settled>>

\* waitTillReady() after its await: a rejected promise throws out of the
\* call; a resolved one is followed by delete this.waitTillReadyPromise.
WaitResume(w) ==
    /\ waiters[w].st = "awaiting"
    /\ reloads[waiters[w].on].promise # "pending"
    /\ LET ok == reloads[waiters[w].on].promise = "resolved"
       IN  /\ waiters' = [waiters EXCEPT ![w] =
                  [@ EXCEPT !.st = IF ok THEN "returned" ELSE "threw",
                            !.left = waiters[w].inflight \cap InFlight]]
           /\ waitTillReadyPromise' = IF ok THEN 0 ELSE waitTillReadyPromise
    /\ UNCHANGED <<collectorVars, observed, providers, matchers, lastCompilationID,
                   reloadHasBeenCalled, previousMatchers, reloads, loads,
                   query, compiledBy, sincePush, settled>>

\* ---------------------------------------------------------------- matchAll
StaleGuardOnlyAhead == lastCompilationID > compilationID

\* The guard of matchAll.
StaleGuard == lastCompilationID # compilationID

validateNeverThrows(m, q) == FALSE

\* validate throws: a locale-aware matcher and options without i18n.
validateThrows(m, q) == LocaleRouteMatcherIs(m) /\ ~q.i18n.present

matchArgRequestPathname(m, q) ==
    IF LocaleRouteMatcherIs(m) THEN q.i18n.pathname ELSE q.pathname

\* The pathname validate hands to matcher.match: that of the locale context
\* for a locale-aware matcher and when the locale was inferred from the
\* default, else that of the normalized options.
matchArg(m, q) ==
    IF LocaleRouteMatcherIs(m) THEN q.i18n.pathname
    ELSE IF q.i18n.present /\ q.i18n.inferredFromDefault THEN q.i18n.pathname
    ELSE q.pathname

\* validate(matcher, normalized) when it does not throw: a match (TRUE) or
\* null (FALSE).
validate(m, q) ==
    IF LocaleRouteMatcherIs(m)
    THEN q.i18n.present /\ matchLocale(m, q.i18n)
    ELSE match(m, matchArg(m, q))

\* The first matcher after position idx of arr at which the loop leaves off,
\* because validate returns a match or throws; 0 when none.
Hit(arr, idx, q) ==
    LET h == {j \in (idx + 1)..Len(arr) :
                 validateThrows(arr[j], q) \/ validate(arr[j], q)}
    IN  IF h = {} THEN 0 ELSE CHOOSE j \in h : \A k \in h : j <= k

\* The pathnames handed to the matchers of arr after position idx up to j.
Args(q, arr, idx, j) == [k \in 1..(j - idx) |-> matchArg(arr[idx + k], q)]

\* The generator q suspended in `phase` at the yield of arr[j], the
\* matchers after position idx up to j consulted; or "failed" when validate
\* threw at arr[j]; or, when j = 0, the loop "exhausted" with all matchers
\* after idx consulted.
ScanTo(q, phase, arr, idx, j) ==
    IF j # 0 /\ validateThrows(arr[j], q)
    THEN [q EXCEPT !.phase = "failed", !.arr = <<>>, !.idx = 0,
                   !.consulted = @ \o SubSeq(arr, idx + 1, j),
                   !.args = @ \o Args(q, arr, idx, j - 1)]
    ELSE IF j # 0
    THEN [q EXCEPT !.phase = phase, !.arr = arr, !.idx = j,
                   !.consulted = @ \o SubSeq(arr, idx + 1, j),
                   !.args = @ \o Args(q, arr, idx, j),
                   !.yielded = Append(@, arr[j])]
    ELSE [q EXCEPT !.phase = "exhausted", !.arr = arr, !.idx = Len(arr),
                   !.consulted = @ \o SubSeq(arr, idx + 1, Len(arr)),
                   !.args = @ \o Args(q, arr, idx, Len(arr))]

\* One for-of loop over arr from position idx, up to its next yield or to
\* its end.
Scan(q, phase, arr, idx) ==
    LET j == CHOOSE j \in {Hit(arr, idx, q)} : TRUE
    IN  ScanTo(q, phase, arr, idx, j)

\* The generator returned: its locals are gone, what it consulted and
\* yielded remains.
Done(q) == [q EXCEPT !.phase = "done", !.arr = <<>>, !.idx = 0]

\* return null at the end of the generator.
Finish(s) == IF s.phase = "exhausted" THEN Done(s) ELSE s

\* for (const matcher of this.matchers.dynamic) ...; return null
DynamicLoop(q) ==
    LET s == CHOOSE s \in {Scan([q EXCEPT !.genD = compiledBy], "dynamic",
                                matchers.dynamic, 0)} : TRUE
    IN  Finish(s)

\* ThenDynamic with the dynamic loop left out after a static match.
ThenDynamicUnlessYielded(s) ==
    IF s.phase = "exhausted"
    THEN IF s.yielded = <<>> THEN DynamicLoop(s) ELSE Finish(s)
    ELSE s

\* The dynamic loop, entered when the static loop ended.
ThenDynamic(s) == IF s.phase = "exhausted" THEN DynamicLoop(s) ELSE s

\* for (const matcher of this.matchers.static) ..., then the dynamic loop
StaticLoop(q) ==
    LET s == CHOOSE s \in {Scan([q EXCEPT !.genS = compiledBy], "static",
                                matchers.static, 0)} : TRUE
    IN  ThenDynamic(s)

\* The exact-output branch: the matchers of all.get(output), first match only.
ExactLoop(q) ==
    IF q.output \notin DOMAIN matchers.all
    THEN Done(q)
    ELSE LET s == CHOOSE s \in {Scan(q, "exact", matchers.all[q.output], 0)} : TRUE
         IN  Finish(s)

\* Resume with an exact-output loop that goes on after its first yield.
ResumeExactGoesOn(q) ==
    CASE q.phase = "static" ->
            LET s == CHOOSE s \in {Scan(q, "static", q.arr, q.idx)} : TRUE
            IN  ThenDynamic(s)
      [] q.phase = "dynamic" ->
            LET s == CHOOSE s \in {Scan(q, "dynamic", q.arr, q.idx)} : TRUE
            IN  Finish(s)
      [] q.phase = "exact" ->
            LET s == CHOOSE s \in {Scan(q, "exact", q.arr, q.idx)} : TRUE
            IN  Finish(s)

\* The generator resumed after a yield.
Resume(q) ==
    CASE q.phase = "static" ->
            LET s == CHOOSE s \in {Scan(q, "static", q.arr, q.idx)} : TRUE
            IN  ThenDynamic(s)
      [] q.phase = "dynamic" ->
            LET s == CHOOSE s \in {Scan(q, "dynamic", q.arr, q.idx)} : TRUE
            IN  Finish(s)
      [] q.phase = "exact" -> Done(q)

\* matchAll(pathname, options) and the first pull from it: the guard, then
\* the body up to its first yield or its end. A behaviour follows one call:
\* a generator keeps nothing of the calls before it, so a later call is the
\* same call made later in a behaviour without the earlier ones.
Call(pathname, output, i18n) ==
    /\ query.phase = "idle"
    /\ LET q == [IdleQuery EXCEPT !.pathname = pathname, !.output = output,
                                  !.i18n = i18n, !.stale = sincePush]
       IN  query' = IF StaleGuard THEN [q EXCEPT !.phase = "threw"]
                    ELSE IF output # <<>> THEN ExactLoop(q)
                    ELSE IF ~isDynamicRoute(pathname) THEN StaticLoop(q)
                    ELSE DynamicLoop(q)

\* matchAll with options that carry no locale context.
MatchAll(pathname, output) ==
    /\ Call(pathname, output, NoI18n)
    /\ UNCHANGED <<collectorVars, observed, providers, matchers, lastCompilationID,
                   waitTillReadyPromise, reloadHasBeenCalled,
                   previousMatchers, reloads, loads, waiters, compiledBy,
                   sincePush, settled>>

\* A further pull from the suspended generator.
MatchAllNext ==
    /\ query.phase \in {"static", "dynamic", "exact"}
    /\ query' = Resume(query)
    /\ UNCHANGED <<collectorVars, observed, providers, matchers, lastCompilationID,
                   waitTillReadyPromise, reloadHasBeenCalled,
                   previousMatchers, reloads, loads, waiters, compiledBy, sincePush, settled>>

\* matchAll on a server with locales.
MatchAllI18n(pathname, output, i18n) ==
    /\ Call(pathname, output, i18n)
    /\ UNCHANGED <<collectorVars, observed, providers, matchers, lastCompilationID,
                   waitTillReadyPromise, reloadHasBeenCalled,
                   previousMatchers, reloads, loads, waiters, compiledBy,
                   sincePush, settled>>

\* ------------------------------------------------ AppPathsCollector calls
managerVars == <<providers, matchers, lastCompilationID, waitTillReadyPromise,
                 reloadHasBeenCalled, previousMatchers, reloads, loads,
                 waiters, query, compiledBy, sincePush, settled, observed>>

\* push(pathname, page) on collector c
CollectorPush(c, pathname, page) ==
    /\ TotalPages(appPaths[c]) < MaxPages
    /\ appPaths' = [appPaths EXCEPT ![c] = PushMap(@, pathname, page)]
    /\ pushed' = [pushed EXCEPT ![c][<<pathname, page>>] = @ + 1]
    /\ lastPush' = [collector |-> c, pathname |-> pathname,
                    returned |-> PushReturn(appPaths[c], pathname, page)]
    /\ calls' = Record("calls", calls,
                    IF c # 1 THEN calls
                    ELSE [calls EXCEPT !.collector = Append(@,
                            [pathname |-> pathname, page |-> page,
                             returned |-> PushReturn(appPaths[c], pathname, page)])])
    /\ UNCHANGED <<managerVars, routes>>

\* clear() on collector c
CollectorClear(c) ==
    /\ appPaths' = [appPaths EXCEPT ![c] = <<>>]
    /\ pushed' = [pushed EXCEPT ![c] =
                     [e \in CollectorPathnames \X CollectorPages |-> 0]]
    /\ lastPush' = [collector |-> 0, pathname |-> <<>>, returned |-> 0]
    /\ calls' = Record("calls", calls,
                    IF c # 1 THEN calls ELSE [calls EXCEPT !.collector = <<>>])
    /\ UNCHANGED <<managerVars, routes>>

\* add(pathname, page) on the AppPathsRoutes
RoutesAdd(pathname, page) ==
    /\ TotalPages(routes) < MaxPages
    /\ routes' = AddMap(routes, pathname, page)
    /\ calls' = Record("calls", calls,
                    [calls EXCEPT !.routes = Append(@,
                        [pathname |-> pathname, page |-> page,
                         returned |-> AddReturn(routes, pathname, page)])])
    /\ UNCHANGED <<managerVars, appPaths, pushed, lastPush>>

\* --------------------------------------------------------- specifications
\* Two collectors, each receiving pushes of its own.
NextCollector ==
    \/ \E c \in CollectorIds, pathname \in CollectorPathnames,
          page \in CollectorPages : CollectorPush(c, pathname, page)
    \/ \E c \in CollectorIds : CollectorClear(c)

InitCollector == Init /\ observed = {}

SpecCollector == InitCollector /\ [][NextCollector]_vars

\* An AppPathsCollector and an AppPathsRoutes, each receiving insertions.
NextRoutes ==
    \/ \E pathname \in CollectorPathnames, page \in CollectorPages :
          CollectorPush(1, pathname, page)
    \/ \E pathname \in CollectorPathnames, page \in CollectorPages :
          RoutesAdd(pathname, page)

InitRoutes == Init /\ observed = {"calls"}

SpecRoutes == InitRoutes /\ [][NextRoutes]_vars

\* Registration and compilation through push, forceReload and load.
Compile ==
    \/ \E p \in ProviderIds : Push(p)
    \/ ForceReload
    \/ Load
    \/ \E i \in 1..Len(reloads) : ReloadSettle(i)
    \/ \E i \in 1..Len(reloads) : LoadReturn(i)

InitCompile == Init /\ observed = {"loads", "settled"}

SpecCompile == InitCompile /\ [][Compile]_vars

\* The manager with a reader. matchAll neither reads nor writes
\* waitTillReadyPromise, and load() acts on what matchAll reads exactly as
\* forceReload() does, so the waiters and load() are left out here.
Next ==
    \/ \E p \in ProviderIds : Push(p)
    \/ ForceReload
    \/ \E i \in 1..Len(reloads) : ReloadSettle(i)
    \/ \E pathname \in QueryPathnames, output \in QueryOutputs :
          MatchAll(pathname, output)
    \/ MatchAllNext

InitMatch == Init /\ observed = {"sincePush", "compiledBy"}

Spec == InitMatch /\ [][Next]_vars

\* The manager of a server with locales, with a reader.
NextLocale ==
    \/ \E p \in LocaleProviderIds : Push(p)
    \/ ForceReload
    \/ \E i \in 1..Len(reloads) : ReloadSettle(i)
    \/ \E pathname \in LocalePathnames, output \in LocaleOutputs,
          i18n \in LocaleOptions : MatchAllI18n(pathname, output, i18n)
    \/ MatchAllNext

InitLocale == Init /\ observed = {}

SpecLocale == InitLocale /\ [][NextLocale]_vars

\* The manager of routes that a static and several dynamic matchers match,
\* with a reader that names no output pathname.
NextOrder ==
    \/ \E p \in OrderProviderIds : Push(p)
    \/ ForceReload
    \/ \E i \in 1..Len(reloads) : ReloadSettle(i)
    \/ \E pathname \in QueryPathnames : MatchAll(pathname, <<>>)
    \/ MatchAllNext

InitOrder == Init /\ observed = {}

SpecOrder == InitOrder /\ [][NextOrder]_vars

\* The manager with the callers of waitTillReady.
NextWait ==
    \/ Compile
    \/ WaitTillReady
    \/ \E w \in 1..Len(waiters) : WaitResume(w)

InitWait == Init /\ observed = {"inflight"}

SpecWait == InitWait /\ [][NextWait]_vars

\* The compile handshake: registration, reloads and the callers of
\* waitTillReady, where every joint fetch of the providers eventually
\* settles and every continuation of a settled promise is eventually run.
NextLive ==
    \/ \E p \in LiveProviderIds : Push(p)
    \/ ForceReload
    \/ \E i \in 1..Len(reloads) : ReloadSettle(i)
    \/ WaitTillReady
    \/ \E w \in 1..Len(waiters) : WaitResume(w)

FetchSettles(i) == i <= Len(reloads) /\ ReloadSettle(i)
ContinuationRuns(w) == w <= Len(waiters) /\ WaitResume(w)

InitLive == Init /\ observed = {}

SpecLive ==
    /\ InitLive
    /\ [][NextLive]_vars
    /\ \A i \in 1..MaxReloads : WF_vars(FetchSettles(i))
    /\ \A w \in 1..MaxWaiters : WF_vars(ContinuationRuns(w))

\* ================================================================= claims
\* The step in which run i settles.
Settles(i) == reloads[i].st = "inflight" /\ reloads'[i].st = "settled"

\* C1: a matchAll() called after a successful forceReload() followed by a
\* push() of at least one provider, with no forceReload() called since,
\* throws at the guard and yields nothing; in every such state the recorded
\* version differs from the version counter.
C1_StalenessGuard ==
    /\ sincePush = "pushed" => lastCompilationID # Len(providers)
    /\ query.stale = "pushed" => query.phase = "threw" /\ query.yielded = <<>>

C1_Witness == query.stale = "pushed" /\ query.phase = "threw"

\* C2: a forceReload that fails (a provider rejects, or the version check
\* fails) does not record its version: lastCompilationID is what it was
\* before the failing run settled.
C2_FailedReloadDoesNotRecord ==
    [][\A i \in 1..Len(reloads) :
          Settles(i) /\ Failed(reloads'[i].outcome)
             => lastCompilationID' = lastCompilationID]_vars

\* C3: a forceReload that ends in the version-mismatch violation leaves
\* static, dynamic, all and duplicates as they were.
C3_MismatchKeepsSnapshot ==
    [][\A i \in 1..Len(reloads) :
          Settles(i) /\ reloads'[i].outcome = "invariant"
             => matchers' = matchers]_vars

\* C4: a forceReload in which a provider's matchers() rejects changes no part
\* of the snapshot: static, dynamic, all, duplicates and previousMatchers are
\* what they were before it settled.
C4_ProviderFailureKeepsSnapshot ==
    [][\A i \in 1..Len(reloads) :
          Settles(i) /\ reloads'[i].outcome = "rejected"
             => matchers' = matchers /\ previousMatchers' = previousMatchers]_vars

C4_Witness ==
    \E i \in 1..Len(reloads) :
        /\ reloads[i].outcome = "rejected"
        /\ reloads[i].cid = 2
        /\ matchers.static # <<>>
        /\ DOMAIN matchers.duplicates # {}

\* C5: the promise returned by a failed forceReload(), and by the load()
\* that triggered it, rejects.
C5_FailureRejectsCaller ==
    \A i \in 1..Len(reloads) :
        Failed(reloads[i].outcome)
           => /\ reloads[i].ret = "rejected"
              /\ reloads[i].loadRet \in {"none", "pending", "rejected"}

\* The last two runs that settled overlapped (the one that settled last was
\* in flight when the other settled) with no push in between, fetched
\* different lists and both ended without error.
OverlappedPair ==
    /\ Len(settled) = 2
    /\ settled[2].run \in settled[1].others
    /\ reloads[settled[1].run].cid = reloads[settled[2].run].cid
    /\ ~Failed(reloads[settled[1].run].outcome)
    /\ ~Failed(reloads[settled[2].run].outcome)
    /\ settled[1].list # settled[2].list

SnapshotIsOf(list) ==
    /\ previousMatchers = list
    /\ matchers.static = StaticOf(list)
    /\ matchers.dynamic = DynamicOf(list)
    /\ matchers.all = GroupAll(list)
    /\ matchers.duplicates = GroupDuplicates(list)

\* C6 as stated: after two overlapping reloads the snapshot is that of the
\* later-started one.
C6_LaterStartedWins ==
    OverlappedPair =>
        SnapshotIsOf(IF settled[1].run > settled[2].run
                     THEN settled[1].list ELSE settled[2].list)

\* C6 amended: after two overlapping reloads the whole snapshot is that of
\* the reload that settled last, whichever of the two started first.
C6_LastSettledWins == OverlappedPair => SnapshotIsOf(settled[2].list)

C6_Witness == OverlappedPair /\ settled[2].run < settled[1].run

\* C7: the static and the dynamic matchers one matchAll() consults come from
\* one and the same compilation.
C7_OneCompilationPerQuery ==
    (/\ query.output = <<>>
     /\ \E k \in 1..Len(query.consulted) : ~isDynamic(query.consulted[k])
     /\ \E k \in 1..Len(query.consulted) : isDynamic(query.consulted[k]))
        => query.genS = query.genD

\* C8: waitTillReady() does not return while a forceReload() started before
\* the call is in flight, and returns without suspending only when none is.
C8_WaitCoversInFlight ==
    \A w \in 1..Len(waiters) :
        /\ waiters[w].st # "awaiting" => waiters[w].left = {}
        /\ ~waiters[w].suspended => waiters[w].inflight = {}

\* C9: every reload that load() triggers is the first forceReload run of the
\* manager, and load() calls without an explicit forceReload() make exactly
\* one run.
C9_LoadIdempotent ==
    /\ \A i \in 1..Len(reloads) : reloads[i].origin = "load" => i = 1
    /\ (loads # "none" /\ \A i \in 1..Len(reloads) : reloads[i].origin = "load")
          => Len(reloads) = 1

C9_Witness ==
    /\ loads = "several"
    /\ Len(reloads) = 1
    /\ reloads[1].origin = "load"
    /\ reloads[1].st = "settled"

\* C10: a matchAll() without exact-output directive never consults two
\* different matchers with the same identity, and yields at most one match
\* per identity.
C10_OneMatcherPerIdentity ==
    query.output = <<>> =>
        /\ \A a, b \in 1..Len(query.consulted) :
              query.consulted[a] # query.consulted[b]
                 => identity(query.consulted[a]) # identity(query.consulted[b])
        /\ \A a, b \in 1..Len(query.yielded) :
              a # b => identity(query.yielded[a]) # identity(query.yielded[b])

\* The query that was called has run: it passed the guard.
Ran(q) == q.phase \notin {"idle", "threw"}

\* C11: a matchAll() whose options name an output pathname consults the
\* matchers of all[p] only, in stored order, up to the first that matches;
\* it yields that one and ends at the next pull, and it yields nothing when
\* all[p] is absent or none of its matchers matches.
C11_ExactOutput ==
    [][(query' # query /\ query'.output # <<>> /\ Ran(query')) =>
        IF query.phase = "idle"
        THEN LET q == query'
                 list == IF q.output \in DOMAIN matchers.all
                         THEN matchers.all[q.output] ELSE <<>>
             IN  \E k \in 0..Len(list) :
                    /\ q.consulted = SubSeq(list, 1, k)
                    /\ \A j \in 1..(k - 1) : ~validate(list[j], q)
                    /\ \/ /\ k > 0
                          /\ validateThrows(list[k], q)
                          /\ q.yielded = <<>>
                          /\ q.phase = "failed"
                       \/ /\ k > 0
                          /\ ~validateThrows(list[k], q)
                          /\ validate(list[k], q)
                          /\ q.yielded = <<list[k]>>
                          /\ q.phase = "exact"
                       \/ /\ k = Len(list)
                          /\ k > 0 => ~validateThrows(list[k], q) /\ ~validate(list[k], q)
                          /\ q.yielded = <<>>
                          /\ q.phase = "done"
        ELSE /\ query'.phase = "done"
             /\ query'.consulted = query.consulted
             /\ query'.yielded = query.yielded]_vars

C11_Witness ==
    /\ query.output = <<"about">>
    /\ query.phase = "done"
    /\ query.consulted = <<5, 6>>
    /\ query.yielded = <<6>>
    /\ Len(matchers.all[<<"about">>]) > 2
    /\ matchers.static # <<>>

\* C16: a matchAll() that consults a locale-aware matcher with options that
\* carry no locale context fails there: that matcher is the last one it
\* consults and nothing is yielded after it.
C16_LocaleContract ==
    (Ran(query) /\ ~query.i18n.present) =>
        \A k \in 1..Len(query.consulted) :
            LocaleRouteMatcherIs(query.consulted[k])
               => query.phase = "failed" /\ k = Len(query.consulted)

C16_Witness ==
    /\ query.phase = "failed"
    /\ ~query.i18n.present
    /\ query.yielded # <<>>
    /\ LocaleRouteMatcherIs(query.consulted[Len(query.consulted)])

\* C17: a matcher that is not locale-aware is invoked with the pathname of
\* the locale context when the context is marked inferredFromDefault, and
\* with the request pathname otherwise; it is yielded exactly when its
\* pattern matches that pathname.
C17_LocaleStripping ==
    \A k \in 1..Len(query.args) :
        ~LocaleRouteMatcherIs(query.consulted[k]) =>
            LET arg == IF query.i18n.present /\ query.i18n.inferredFromDefault
                       THEN query.i18n.pathname ELSE query.pathname
            IN  /\ query.args[k] = arg
                /\ PathnameMatch(definitionPathname(query.consulted[k]), arg)
                      => \E j \in 1..Len(query.yielded) :
                            query.yielded[j] = query.consulted[k]

C17_Witness ==
    /\ query.pathname = <<"en", "about">>
    /\ query.i18n.present /\ query.i18n.inferredFromDefault
    /\ \E j \in 1..Len(query.yielded) : query.yielded[j] = 7

\* The matchers of list whose pattern matches the pathname.
Matching(list, pathname) == SelectSeq(list, LAMBDA m : match(m, pathname))
StaticPart(list) == SelectSeq(list, LAMBDA m : ~isDynamic(m))
DynamicPart(list) == SelectSeq(list, isDynamic)
IsPrefix(a, b) == Len(a) <= Len(b) /\ a = SubSeq(b, 1, Len(a))

\* C12: a matchAll() without output pathname consults static matchers before
\* dynamic ones and yields exactly the consulted matchers that match, in
\* that order; the static ones are (a prefix of, and at the end of the loop
\* all of) the static list read when the call started, the dynamic ones
\* those of the dynamic list read when the dynamic loop started, in stored
\* order; a pull stops at a match or ends the sequence; no static matcher is
\* consulted for a pathname that looks like a dynamic route; and the first
\* result, that of match(), is the first matching static matcher if there
\* is one, else the first matching dynamic matcher, else none.
C12_MatchOrder ==
    [][(query' # query /\ query'.output = <<>> /\ Ran(query')) =>
        LET q == query'
            begun == query.phase = "idle"
            inDynamic == q.phase \in {"dynamic", "done"}
        IN  /\ q.consulted = StaticPart(q.consulted) \o DynamicPart(q.consulted)
            /\ q.yielded = Matching(q.consulted, q.pathname)
            /\ isDynamicRoute(q.pathname) => StaticPart(q.consulted) = <<>>
            /\ q.phase \in {"static", "dynamic", "done"}
            /\ q.phase # "done" =>
                  q.consulted[Len(q.consulted)] = q.yielded[Len(q.yielded)]
            /\ IsPrefix(query.consulted, q.consulted)
            /\ Len(q.yielded) <= Len(query.yielded) + 1
            /\ (begun /\ ~isDynamicRoute(q.pathname)) =>
                  /\ IsPrefix(StaticPart(q.consulted), matchers.static)
                  /\ inDynamic => StaticPart(q.consulted) = matchers.static
            /\ (query.phase = "static" /\ inDynamic) =>
                  StaticPart(q.consulted) = query.arr
            /\ ((begun \/ query.phase = "static") /\ inDynamic) =>
                  /\ IsPrefix(DynamicPart(q.consulted), matchers.dynamic)
                  /\ q.phase = "done" => DynamicPart(q.consulted) = matchers.dynamic
            /\ query.phase = "dynamic" =>
                  /\ IsPrefix(DynamicPart(q.consulted), query.arr)
                  /\ q.phase = "done" => DynamicPart(q.consulted) = query.arr
            /\ begun =>
                  LET st == Matching(matchers.static, q.pathname)
                      dy == Matching(matchers.dynamic, q.pathname)
                  IN  IF st # <<>> THEN q.yielded = <<Head(st)>>
                      ELSE IF dy # <<>> THEN q.yielded = <<Head(dy)>>
                      ELSE q.yielded = <<>> /\ q.phase = "done"]_vars

C12_Witness ==
    /\ query.phase = "done"
    /\ query.pathname = <<"a", "b">>
    /\ query.yielded = <<8, 3, 4>>

\* C18: a forceReload whose providers all resolved and during which a
\* provider was pushed (the version counter is no longer the one it
\* captured when it settles) ends in the invariant violation.
C18_PushFailsInFlightReload ==
    [][\A i \in 1..Len(reloads) :
          (/\ Settles(i)
           /\ reloads[i].cid # compilationID
           /\ reloads'[i].outcome # "rejected")
             => reloads'[i].outcome = "invariant"]_vars

\* C19: a forceReload whose providers resolved replaces duplicates by the
\* map computed from the fetched list; when that list equals the previously
\* compiled list, element by element, it leaves static, dynamic and all as
\* they were, and otherwise it replaces all three from the fetched list.
C19_ShortCircuitFrame ==
    [][\A i \in 1..Len(reloads) :
          (Settles(i) /\ reloads'[i].outcome # "rejected") =>
             LET list == settled'[Len(settled')].list
             IN  /\ matchers'.duplicates = GroupDuplicates(list)
                 /\ IF /\ Len(previousMatchers) = Len(list)
                       /\ \A k \in 1..Len(list) : previousMatchers[k] = list[k]
                    THEN /\ matchers'.static = matchers.static
                         /\ matchers'.dynamic = matchers.dynamic
                         /\ matchers'.all = matchers.all
                    ELSE /\ matchers'.static = StaticOf(list)
                         /\ matchers'.dynamic = DynamicOf(list)
                         /\ matchers'.all = GroupAll(list)]_vars

C19_Witness ==
    /\ Len(settled) = 2
    /\ reloads[settled[2].run].outcome = "same"
    /\ settled[2].list # <<>>
    /\ reloads[settled[1].run].outcome = "ok"
    /\ DOMAIN matchers.duplicates # {}

\* C20: every forceReload() eventually settles and every caller suspended
\* in waitTillReady() is eventually released (it returns, or the rejection
\* of the promise it awaits is thrown to it). A settled reload and a
\* released caller stay so and a behaviour has finitely many of each, so
\* this is: from some point on no reload is in flight and no caller is
\* suspended.
C20_HandshakeLiveness ==
    <>[](/\ \A i \in 1..Len(reloads) : reloads[i].st = "settled"
         /\ \A w \in 1..Len(waiters) : waiters[w].st \in {"returned", "threw"})

C20_Witness ==
    /\ Len(waiters) = 2
    /\ waiters[1].suspended /\ waiters[1].st = "threw"
    /\ waiters[2].suspended /\ waiters[2].st = "returned"
    /\ waiters[1].on # waiters[2].on
    /\ InFlight = {}

\* How often a page was pushed for the pathname on collector c.
PushedCount(c, pathname) ==
    LET n[ps \in SUBSET CollectorPages] ==
            IF ps = {} THEN 0
            ELSE LET x == CHOOSE x \in ps : TRUE
                 IN  pushed[c][<<pathname, x>>] + n[ps \ {x}]
    IN  n[CollectorPages]

Occurrences(arr, x) == Cardinality({k \in 1..Len(arr) : arr[k] = x})
Ascending(arr) == \A k \in 1..(Len(arr) - 1) : ~StrLess(arr[k + 1], arr[k])

\* C13: two collectors that were pushed the same multiset of (pathname,
\* page) pairs return the same toSortedArray() and the same toObject(), in
\* whatever order each received its pushes.
C13_CollectorDeterminism ==
    pushed[1] = pushed[2] =>
        /\ toSortedArray(appPaths[1]) = toSortedArray(appPaths[2])
        /\ toObject(appPaths[1]) = toObject(appPaths[2])

C13_Witness ==
    /\ pushed[1] = pushed[2]
    /\ Len(appPaths[1]) = 2
    /\ MapKeys(appPaths[1]) # MapKeys(appPaths[2])
    /\ \E p \in CollectorPathnames :
          /\ Len(MapGet(appPaths[1], p)) = 2
          /\ MapGet(appPaths[1], p) # MapGet(appPaths[2], p)

\* C14: get(pathname) of a pushed pathname has as appPaths the pushed pages
\* of that pathname, each as often as it was pushed, in ascending order, and
\* as page the greatest of them; get of a pathname never pushed is null;
\* toSortedArray() is one such aggregate per pushed pathname, in ascending
\* order of pathname.
C14_GetAndSortedArray ==
    \A c \in CollectorIds :
        /\ \A p \in CollectorPathnames :
              LET g == get(appPaths[c], p)
              IN  IF PushedCount(c, p) = 0 THEN g = Null
                  ELSE /\ g.pathname = p
                       /\ Len(g.appPaths) = PushedCount(c, p)
                       /\ \A x \in CollectorPages :
                             Occurrences(g.appPaths, x) = pushed[c][<<p, x>>]
                       /\ Ascending(g.appPaths)
                       /\ \E k \in 1..Len(g.appPaths) : g.appPaths[k] = g.page
                       /\ \A k \in 1..Len(g.appPaths) :
                             ~StrLess(g.page, g.appPaths[k])
        /\ LET arr == toSortedArray(appPaths[c])
           IN  /\ Len(arr) =
                    Cardinality({p \in CollectorPathnames : PushedCount(c, p) > 0})
               /\ \A k \in 1..Len(arr) : arr[k] = get(appPaths[c], arr[k].pathname)
               /\ \A k \in 1..(Len(arr) - 1) :
                     StrLess(arr[k].pathname, arr[k + 1].pathname)

C14_Witness ==
    /\ MapKeys(appPaths[1]) = <<<<47, 98>>, <<47, 97, 98>>>>
    /\ MapGet(appPaths[1], <<47, 98>>) = <<<<98>>, <<97, 98>>>>
    /\ get(appPaths[1], <<47, 98>>).page = <<98>>

\* C15: push returns the number of pushes made for its pathname on that
\* collector since construction or the last clear(), this one included: 1
\* exactly for the first, whatever was pushed for other pathnames.
C15_PushReturnsCount ==
    lastPush.collector # 0 =>
        /\ lastPush.returned = PushedCount(lastPush.collector, lastPush.pathname)
        /\ lastPush.returned >= 1

C15_Witness ==
    /\ lastPush.collector = 1
    /\ lastPush.returned = 1
    /\ TotalPages(appPaths[1]) = 3

\* C21: while a forceReload() that captured the current version counter has
\* completed successfully (no provider was pushed since it started), the
\* recorded version is the version counter, so that matchAll() passes its
\* guard, whichever older reloads settle in between.
C21_CompiledStaysCompiled ==
    (\E i \in 1..Len(reloads) :
        /\ reloads[i].st = "settled"
        /\ ~Failed(reloads[i].outcome)
        /\ reloads[i].cid = compilationID)
       => lastCompilationID = compilationID /\ ~StaleGuard

\* The (pathname, page) insertions of a log of calls.
Insertions(log) ==
    [k \in 1..Len(log) |-> <<log[k].pathname, log[k].page>>]

\* C22: when the same sequence of insertions was applied to an
\* AppPathsCollector (push) and to an AppPathsRoutes (add), every insertion
\* returned the same count on both, and pathnames(), get(pathname) for every
\* pathname and toSortedArray() are equal on both.
C22_CollectorRoutesEquivalent ==
    Insertions(calls.collector) = Insertions(calls.routes) =>
        /\ calls.collector = calls.routes
        /\ pathnames(appPaths[1]) = routesPathnames(routes)
        /\ \A p \in CollectorPathnames :
              get(appPaths[1], p) = routesGet(routes, p)
        /\ toSortedArray(appPaths[1]) = routesToSortedArray(routes)

C22_Witness ==
    /\ Insertions(calls.collector) = Insertions(calls.routes)
    /\ Insertions(calls.routes) =
          << <<<<47, 98>>, <<98>>>>, <<<<47, 97, 98>>, <<98>>>>,
             <<<<47, 98>>, <<97, 98>>>> >>
    /\ MapGet(appPaths[1], <<47, 98>>) # MapGet(routes, <<47, 98>>)

====
